---------------------------- MODULE Spec2Model ----------------------------
(***************************************************************************)
(* Model of audio-spectrum-generator: the spectrum analysis                *)
(* (src/src/spectrum.rs), the render loop of main (src/src/main.rs) and    *)
(* the rounded-bar rasterizer (src/src/draw.rs).                           *)
(*                                                                         *)
(* Numbers.  f32 amplitudes are fixed-point thousandths (Unit = 1.0).      *)
(* The overlap ratio is a rational <<num, den>> with 0 <= num < den.       *)
(* The transform sizes are the ones whose DFT twiddle factors are exactly  *)
(* 1, -1, i, -i (fft_size 1, 2, 4), so the transform is computed exactly   *)
(* in integers, and whose bins fall exactly on f_min or f_max, so the      *)
(* log-frequency bar index needs no logarithm.                             *)
(***************************************************************************)
EXTENDS Integers, Sequences, FiniteSets, TLC

\* ------------------------------------------------------------------ bounds
MaxLen == 6
MaxBars == 2
MaxDen == 3
MaxProbe == 3

\* fixed-point one (1.0f32), in thousandths
Unit == 10 * 10 * 10

\* a sample is silence or full scale
SampleValues == {0, Unit}
FftSizes == {1, 2, 4}
Overlaps == {<<n, d>> : n \in 0..(MaxDen - 1), d \in 1..MaxDen} \cap
            {p \in (0..MaxDen) \X (1..MaxDen) :
                /\ p[1] < p[2]
                /\ \A g \in 2..MaxDen : ~(p[1] % g = 0 /\ p[2] % g = 0)}

RECURSIVE SeqsUpTo(_, _)
SeqsUpTo(S, n) ==
    IF n = 0 THEN {<<>>}
    ELSE LET shorter == SeqsUpTo(S, n - 1)
         IN  shorter \cup {Append(s, v) : s \in {t \in shorter : Len(t) = n - 1}, v \in S}

VARIABLES
    samples,          \* decoded mono PCM (main.rs:141)
    sample_rate,      \* decoded.sample_rate
    fps,              \* Config.fps
    fft_size,         \* Config.fft_size
    overlap,          \* Config.overlap, <<num, den>>
    bars,             \* Config.bars
    pc,               \* position in the running function
    hop,              \* compute_all_spectrums' local hop (spectrum.rs:96)
    num_frames,       \* compute_all_spectrums' local num_frames (spectrum.rs:97)
    frame_index,      \* loop counter of spectrum.rs:101
    frame_spectrums,  \* spectrum.rs:98
    global_max,       \* spectrum.rs:99
    call,             \* the last compute_spectrum_frame call: [frame_index, hop, start, out]
    processed,        \* frame indices already folded, when frames are taken in any order
    total_frames,     \* main.rs:159
    norm,             \* main.rs:179
    video_frame_index, \* loop counter of main.rs:190
    spectrum_index,   \* main.rs:191
    bar_heights,      \* main.rs:196, draw_spectrum_frame's bar_heights
    width,            \* Config.width
    height,           \* Config.height
    spectrum_height,  \* Config.spectrum_height
    spectrum_y_from_bottom,
    spectrum_width,   \* Option<u32>
    bg_image,         \* Option<RgbaImage>, an image being its [width, height]
    img,              \* the canvas draw_spectrum_frame returned: [width, height, drawn]
    layout,           \* draw_spectrum_frame's locals at its return
    hit               \* one point_in_rounded_rect call: its arguments and its result

inputs == <<samples, sample_rate, fps, fft_size, overlap, bars>>
analysisVars == <<hop, num_frames, frame_index, frame_spectrums, global_max, call, processed>>
renderVars == <<total_frames, norm, video_frame_index, spectrum_index, bar_heights>>
canvasVars == <<width, height, spectrum_height, spectrum_y_from_bottom, spectrum_width>>
drawVars == <<bg_image, img, layout, hit>>

vars == <<inputs, pc, analysisVars, renderVars, canvasVars, drawVars>>

\* ------------------------------------------------------------ f32 helpers
\* Option<T>: None is <<>>, Some(x) is <<x>>
None == <<>>
Some(x) == <<x>>

Max(a, b) == IF a >= b THEN a ELSE b
Min(a, b) == IF a <= b THEN a ELSE b
Abs(a) == IF a < 0 THEN -a ELSE a

\* usize::saturating_sub
saturating_sub(a, b) == IF a > b THEN a - b ELSE 0

Zeros(n) == [i \in 1..n |-> 0]

RECURSIVE ISqrtIn(_, _, _)
\* the largest r in lo..hi with r*r <= x, by bisection
ISqrtIn(x, lo, hi) ==
    IF lo >= hi THEN lo
    ELSE LET mid == (lo + hi + 1) \div 2
         IN  IF mid * mid <= x THEN ISqrtIn(x, mid, hi) ELSE ISqrtIn(x, lo, mid - 1)
\* Complex::norm: sqrt(re^2 + im^2), truncated to the fixed-point grid
complex_norm(re, im) == ISqrtIn(re * re + im * im, 0, Abs(re) + Abs(im))

\* x.ln() of (1.0 + x), fixed point: the [1/1] Pade form 2y/(2+y) of ln(1+y),
\* increasing, 0 at 0, exact to the grid near 0
ln_1p(x) == (2 * Unit * x) \div (2 * Unit + x)

\* ---------------------------------------------------------- spectrum.rs
\* (fft_size as f32 * (1.0 - overlap)).max(1.0) as usize: `as usize` truncates
TruncHop(n, ov) == Max(1, (n * (ov[2] - ov[1])) \div ov[2])

\* line 17
frame_hop(n, ov) == TruncHop(n, ov)

\* the hop rounded to the nearest integer
all_hop_rounded(n, ov) == Max(1, (2 * n * (ov[2] - ov[1]) + ov[2]) \div (2 * ov[2]))

\* line 96
all_hop(n, ov) == TruncHop(n, ov)

\* 0.5 * (1 - cos(pi (i+1) / (n+1))), i from 0, in thousandths
hann_window(i, n) ==
    CASE n = 1 -> <<500>>[i + 1]
      [] n = 2 -> <<250, 750>>[i + 1]
      [] n = 4 -> <<95, 345, 655, 905>>[i + 1]

\* exp(-2 pi i q / 4), q in 0..3
TwiddleRe(q) == <<1, 0, -1, 0>>[q + 1]
TwiddleIm(q) == <<0, -1, 0, 1>>[q + 1]

\* buffer[j] = Complex::new(s * w, 0.0), j from 0
Windowed(smp, start, n, j) == (smp[start + j + 1] * hann_window(j, n)) \div Unit

RECURSIVE DftSum(_, _, _, _, _, _)
\* sum over j in 0..upto of buffer[j] * twiddle: re when part = 0, im when part = 1
DftSum(smp, start, n, k, upto, part) ==
    IF upto < 0 THEN 0
    ELSE LET q == (upto * k * (4 \div n)) % 4
             t == IF part = 0 THEN TwiddleRe(q) ELSE TwiddleIm(q)
         IN  Windowed(smp, start, n, upto) * t + DftSum(smp, start, n, k, upto - 1, part)

\* lines 23-41: magnitudes of bins 0..fft_size/2
Magnitudes(smp, start, n) ==
    [b \in 1..(n \div 2 + 1) |->
        complex_norm(DftSum(smp, start, n, b - 1, n - 1, 0), DftSum(smp, start, n, b - 1, n - 1, 1))]

\* lines 75-78: the bar of bin bin_ix.  f = bin_ix*sr/n, f_min = sr/n,
\* f_max = sr/2.  n = 2: log_span = 0, t = 0/0 = NaN, NaN.clamp = NaN,
\* (NaN * bars).min(bars - 1) = bars - 1.  f = f_min: t = 0.  f = f_max: t = 1,
\* (bars).min(bars - 1) = bars - 1.  Bin 0 has log_f = 0 < log_f_min: with
\* log_span >= 0 (n >= 2) t is negative or -inf and clamps to 0; with
\* log_span < 0 (n = 1) t is above 1 and clamps to 1.
BarIndex(n, bin_ix, nbars) ==
    CASE bin_ix = 0 /\ n = 1 -> nbars - 1
      [] bin_ix = 0 /\ n # 1 -> 0
      [] bin_ix # 0 /\ n = 2 -> nbars - 1
      [] bin_ix # 0 /\ n # 2 /\ bin_ix = 1 -> 0
      [] bin_ix # 0 /\ n # 2 /\ bin_ix # 1 /\ 2 * bin_ix = n -> nbars - 1

RECURSIVE AggregateFrom(_, _, _, _, _)
\* the loop of lines 74-82, from bin b (0-based) on
AggregateFrom(n, mags, nbars, b, result) ==
    IF b >= Len(mags) THEN result
    ELSE LET bar_ix == BarIndex(n, b, nbars)
             mag == mags[b + 1]
         IN  AggregateFrom(n, mags, nbars, b + 1,
                 IF bar_ix < nbars /\ mag > result[bar_ix + 1]
                 THEN [result EXCEPT ![bar_ix + 1] = mag]
                 ELSE result)

\* the result sized by the bins instead of the bars
aggregate_sized_by_bins(n, mags, nbars) ==
    IF Len(mags) = 0 \/ nbars = 0 THEN Zeros(nbars)
    ELSE AggregateFrom(n, mags, Len(mags), 1, Zeros(Len(mags)))

\* the loop without .skip(1): the DC bin takes part
aggregate_with_dc(n, mags, nbars) ==
    IF Len(mags) = 0 \/ nbars = 0 THEN Zeros(nbars)
    ELSE AggregateFrom(n, mags, nbars, 0, Zeros(nbars))

aggregate_bins_to_bars_log(n, mags, nbars) ==
    IF Len(mags) = 0 \/ nbars = 0 THEN Zeros(nbars)
    ELSE AggregateFrom(n, mags, nbars, 1, Zeros(nbars))

\* lines 18-21: whether the window of frame fi fits
InsufficientSamples(smp, fi, n, ov) == fi * frame_hop(n, ov) + n > Len(smp)

compute_spectrum_frame(smp, fi, n, ov, nbars) ==
    LET start == fi * frame_hop(n, ov)
    IN  IF InsufficientSamples(smp, fi, n, ov) THEN Zeros(nbars)
        ELSE LET raw == aggregate_bins_to_bars_log(n, Magnitudes(smp, start, n), nbars)
             IN  [i \in 1..Len(raw) |-> ln_1p(raw[i])]

\* what a call leaves behind for the observer
CallRecord(smp, fi, n, ov, nbars) ==
    LET start == fi * frame_hop(n, ov)
        fits == ~InsufficientSamples(smp, fi, n, ov)
        magnitudes == IF fits THEN Magnitudes(smp, start, n) ELSE <<>>
    IN  [frame_index |-> fi, hop |-> frame_hop(n, ov), start |-> start,
         magnitudes |-> magnitudes,
         raw |-> IF fits THEN aggregate_bins_to_bars_log(n, magnitudes, nbars) ELSE <<>>,
         out |-> compute_spectrum_frame(smp, fi, n, ov, nbars)]

NoCall == [frame_index |-> -1, hop |-> 0, start |-> 0, magnitudes |-> <<>>, raw |-> <<>>,
           out |-> <<>>]
NoImage == [width |-> 0, height |-> 0, drawn |-> {}]
NoHit == [px |-> 0, py |-> 0, x0 |-> 0, y0 |-> 0, w |-> 0, h |-> 0, r |-> 0, result |-> "none"]
NoLayout == [bar_width |-> 0, radius |-> 0, start_x |-> 0, y_center |-> 0, usable_height |-> 0]

RECURSIVE FoldMax(_, _, _)
\* bar_values.iter().copied().fold(0.0f32, f32::max)
FoldMax(v, i, acc) == IF i > Len(v) THEN acc ELSE FoldMax(v, i + 1, Max(acc, v[i]))

\* the count without the frame at offset 0
NumFramesNoFirst(len, n, h) == saturating_sub(len, n) \div h

\* the count max(0, len - n + h) / h
NumFramesClampedLate(len, n, h) == Max(0, len - n + h) \div h

\* line 97
NumFrames(len, n, h) == (saturating_sub(len, n) + h) \div h

\* the last frame's maximum instead of the running one
FoldLastWins(gm, m) == m

\* lines 112-114
FoldGlobalMax(gm, m) == IF m > gm THEN m ELSE gm

\* lines 115
PushFrame(fs, v) == Append(fs, v)

\* compute_all_spectrums, lines 96-99
EnterAll ==
    /\ pc = "start"
    /\ hop' = all_hop(fft_size, overlap)
    /\ num_frames' = NumFrames(Len(samples), fft_size, all_hop(fft_size, overlap))
    /\ frame_index' = 0
    /\ frame_spectrums' = <<>>
    /\ global_max' = 0
    /\ pc' = "loop"
    /\ UNCHANGED <<inputs, call, processed, renderVars, canvasVars, drawVars>>

\* one iteration of the loop, lines 101-116
AnalyseFrame ==
    /\ pc = "loop"
    /\ frame_index < num_frames
    /\ LET c == CallRecord(samples, frame_index, fft_size, overlap, bars)
           m == FoldMax(c.out, 1, 0)
       IN  /\ call' = c
           /\ global_max' = FoldGlobalMax(global_max, m)
           /\ frame_spectrums' = PushFrame(frame_spectrums, c.out)
    /\ frame_index' = frame_index + 1
    /\ UNCHANGED <<inputs, pc, hop, num_frames, processed, renderVars, canvasVars, drawVars>>

\* line 118
ReturnAll ==
    /\ pc = "loop"
    /\ frame_index >= num_frames
    /\ pc' = "returned"
    /\ UNCHANGED <<inputs, analysisVars, renderVars, canvasVars, drawVars>>

\* compute_spectrum_frame called on its own (it is pub; the tests do), any index
CallFrame ==
    /\ pc = "start"
    /\ \E fi \in 0..MaxProbe :
          call' = CallRecord(samples, fi, fft_size, overlap, bars)
    /\ pc' = "called"
    /\ UNCHANGED <<inputs, hop, num_frames, frame_index, frame_spectrums, global_max,
                   processed, renderVars, canvasVars, drawVars>>

\* compute_all_spectrums not yet entered
AnalysisIdle ==
    /\ hop = 0
    /\ num_frames = 0
    /\ frame_index = 0
    /\ frame_spectrums = <<>>
    /\ global_max = 0
    /\ call = NoCall
    /\ processed = {}

\* the render loop of main not yet entered
RenderIdle ==
    /\ total_frames = 0
    /\ norm = 0
    /\ video_frame_index = 0
    /\ spectrum_index = 0
    /\ bar_heights = <<>>

\* no canvas drawn yet
DrawIdle ==
    /\ bg_image = None
    /\ img = NoImage
    /\ layout = NoLayout
    /\ hit = NoHit

\* the analysis on its own: the canvas configuration plays no part
CanvasUnused ==
    /\ width = 0
    /\ height = 0
    /\ spectrum_height = 0
    /\ spectrum_y_from_bottom = 0
    /\ spectrum_width = None

InitAnalysis ==
    /\ samples \in SeqsUpTo(SampleValues, MaxLen)
    /\ sample_rate = 1
    /\ fps = 1
    /\ fft_size \in FftSizes
    /\ overlap \in Overlaps
    /\ bars \in 0..MaxBars
    /\ pc = "start"
    /\ AnalysisIdle
    /\ RenderIdle
    /\ CanvasUnused
    /\ DrawIdle

NextAnalysis == EnterAll \/ AnalyseFrame \/ ReturnAll \/ CallFrame

SpecAnalysis == InitAnalysis /\ [][NextAnalysis]_vars


\* --------------------------------------- the frames taken in any order
\* Config::default().overlap
DefaultOverlap == <<1, 2>>

\* one iteration of the loop body (lines 102-115) for any frame not yet
\* folded: the call, the fold into global_max, the vector kept at its index
FoldAnyFrame ==
    /\ pc = "loop"
    /\ \E i \in (0..(num_frames - 1)) \ processed :
          LET c == CallRecord(samples, i, fft_size, overlap, bars)
              m == FoldMax(c.out, 1, 0)
          IN  /\ call' = c
              /\ global_max' = FoldGlobalMax(global_max, m)
              /\ frame_spectrums' = [k \in processed \cup {i} |->
                                        IF k = i THEN c.out ELSE frame_spectrums[k]]
              /\ processed' = processed \cup {i}
    /\ frame_index' = frame_index + 1
    /\ UNCHANGED <<inputs, pc, hop, num_frames, renderVars, canvasVars, drawVars>>

RECURSIVE LoopGlobalMax(_, _)
\* global_max after the sequential loop of lines 101-116 from frame i on
LoopGlobalMax(i, gm) ==
    IF i >= num_frames THEN gm
    ELSE LoopGlobalMax(i + 1,
            FoldGlobalMax(gm, FoldMax(compute_spectrum_frame(samples, i, fft_size, overlap, bars), 1, 0)))

\* fft_size 1 has the DC bin alone, which no bar takes: every frame is zero
InitFold ==
    /\ samples \in SeqsUpTo(SampleValues, MaxLen)
    /\ sample_rate = 1
    /\ fps = 1
    /\ fft_size \in FftSizes \ {1}
    /\ overlap = DefaultOverlap
    /\ bars \in {1, MaxBars}
    /\ pc = "start"
    /\ AnalysisIdle
    /\ RenderIdle
    /\ CanvasUnused
    /\ DrawIdle

NextFold == EnterAll \/ FoldAnyFrame \/ ReturnAll

SpecFold == InitFold /\ [][NextFold]_vars

\* --------------------------------------------------------------- draw.rs
\* let gap = 1u32
Gap == 1
\* spectrum_height.saturating_sub(4)
Margin == 4
\* (bar_width / 2).clamp(1, 4)
MinRadius == 1
MaxRadius == 4

clamp(x, lo, hi) == IF x < lo THEN lo ELSE IF x > hi THEN hi ELSE x

\* spectrum_width.unwrap_or(width)
unwrap_or(opt, default) == IF opt = None THEN default ELSE opt[1]

\* the centre strip without its upper bound
point_in_rounded_rect_open_top(px, py, x0, y0, w, h, r) ==
    IF r = 0 THEN px >= x0 /\ px < x0 + w /\ py >= y0 /\ py < y0 + h
    ELSE LET x1 == x0 + w
             y1 == y0 + h
             in_center == px >= x0 + r /\ px < x1 - r /\ py < y1
             in_middle_vertical == px >= x0 /\ px < x1 /\ py >= y0 + r /\ py < y1 - r
             corners == {<<x0 + r, y0 + r>>, <<x1 - r - 1, y0 + r>>,
                         <<x0 + r, y1 - r - 1>>, <<x1 - r - 1, y1 - r - 1>>}
         IN  \/ in_center
             \/ in_middle_vertical
             \/ \E c \in corners :
                   (px - c[1]) * (px - c[1]) + (py - c[2]) * (py - c[2]) <= r * r

point_in_rounded_rect(px, py, x0, y0, w, h, r) ==
    IF r = 0 THEN px >= x0 /\ px < x0 + w /\ py >= y0 /\ py < y0 + h
    ELSE LET x1 == x0 + w
             y1 == y0 + h
             in_center == px >= x0 + r /\ px < x1 - r /\ py >= y0 /\ py < y1
             in_middle_vertical == px >= x0 /\ px < x1 /\ py >= y0 + r /\ py < y1 - r
             corners == {<<x0 + r, y0 + r>>, <<x1 - r - 1, y0 + r>>,
                         <<x0 + r, y1 - r - 1>>, <<x1 - r - 1, y1 - r - 1>>}
         IN  \/ in_center
             \/ in_middle_vertical
             \/ \E c \in corners :
                   (px - c[1]) * (px - c[1]) + (py - c[2]) * (py - c[2]) <= r * r

\* for x in x0..x1, line 87
RectColumns(x0, w) == x0..(x0 + w - 1)

\* the pixels draw_rounded_rect puts on a canvas of iw x ih
draw_rounded_rect(iw, ih, x0, y0, w, h, r) ==
    LET rr == Min(Min(r, w \div 2), h \div 2)
    IN  {p \in RectColumns(x0, w) \X (y0..(y0 + h - 1)) :
            /\ point_in_rounded_rect(p[1], p[2], x0, y0, w, h, rr)
            /\ p[1] < iw
            /\ p[2] < ih}

\* lines 21-24: the canvas starts as the background image, or width x height
BlankCanvas(w, h, bg) ==
    IF bg = None THEN [width |-> w, height |-> h, drawn |-> {}]
    ELSE [width |-> bg[1].width, height |-> bg[1].height, drawn |-> {}]

\* the bar width is at least one pixel
BarWidthAtLeastOne(strip_width, total_bars, total_gaps) ==
    IF total_bars > 0 /\ strip_width > total_gaps
    THEN Max(1, (strip_width - total_gaps) \div total_bars)
    ELSE 1

\* lines 39-43
BarWidth(strip_width, total_bars, total_gaps) ==
    IF total_bars > 0 /\ strip_width > total_gaps
    THEN (strip_width - total_gaps) \div total_bars
    ELSE 0

\* line 45
StartX(w, total_bars, bar_width, total_gaps) ==
    saturating_sub(w, total_bars * bar_width + total_gaps) \div 2

\* lines 30-45
Layout(w, h, sh, yfb, sw, heights) ==
    LET total_bars == Len(heights)
        total_gaps == saturating_sub(total_bars, 1) * Gap
        strip_width == Min(unwrap_or(sw, w), w)
        bar_width == BarWidth(strip_width, total_bars, total_gaps)
    IN  [usable_height |-> saturating_sub(sh, Margin),
         y_center |-> saturating_sub(saturating_sub(h, yfb), sh \div 2),
         bar_width |-> bar_width,
         radius |-> clamp(bar_width \div 2, MinRadius, MaxRadius),
         start_x |-> StartX(w, total_bars, bar_width, total_gaps)]

\* a bar of height 0 is drawn as one row
BarHeightAtLeastOne(v, usable_height) == Max(1, (clamp(v, 0, Unit) * usable_height) \div Unit)

\* lines 48-49: (h.clamp(0.0, 1.0) * usable_height as f32) as u32
BarHeight(v, usable_height) == (clamp(v, 0, Unit) * usable_height) \div Unit

\* the bars follow one another without a gap
BarX0NoGap(start_x, i, bar_width) == start_x + i * bar_width

\* line 54, the left column of bar i (from 0)
BarX0(start_x, i, bar_width) == start_x + i * (bar_width + Gap)

\* lines 47-66, the pixels of bar i (from 0); none when its height is 0
BarPixels(iw, ih, lay, i, v) ==
    LET bar_height == BarHeight(v, lay.usable_height)
        x0 == BarX0(lay.start_x, i, lay.bar_width)
        y_top == saturating_sub(lay.y_center, bar_height \div 2)
    IN  IF bar_height = 0 THEN {}
        ELSE draw_rounded_rect(iw, ih, x0, y_top, lay.bar_width, bar_height, lay.radius)

draw_spectrum_frame(w, h, sh, yfb, sw, heights, bg) ==
    LET blank == BlankCanvas(w, h, bg)
        lay == Layout(w, h, sh, yfb, sw, heights)
    IN  IF Len(heights) = 0 THEN blank
        ELSE [blank EXCEPT !.drawn =
                 UNION {BarPixels(blank.width, blank.height, lay, i - 1, heights[i]) :
                           i \in 1..Len(heights)}]

\* ------------------------------------------------ the rasterizer's caller
MaxWidth == 5
MaxHeight == 8
MaxSpectrumHeight == 8
MaxDrawBars == 3

HeightValues == {0, Unit \div 2, Unit}
Widths == 1..MaxWidth
Heights == {MaxHeight - 1, MaxHeight}
SpectrumHeights == {0, Margin, Margin + 1, MaxSpectrumHeight}
YFromBottoms == {0, 1, MaxHeight + 1}
SpectrumWidths == {None, Some(1), Some(3), Some(MaxWidth + 1)}
ImageSizes == [width : 1..(MaxWidth + 1), height : {MaxHeight, MaxHeight + 1}]

\* the decoded image is used as it is
KeepImageSize(raw, w, h) == raw

\* main.rs 127-132: the image as decoded when it has the frame's size, else resized
ResizeBackground(raw, w, h) ==
    IF raw.width = w /\ raw.height = h THEN raw ELSE [width |-> w, height |-> h]

\* main.rs 121-135, with --bg-image
LoadBackground ==
    /\ pc = "config"
    /\ \E raw \in ImageSizes : bg_image' = Some(ResizeBackground(raw, width, height))
    /\ pc' = "ready"
    /\ UNCHANGED <<inputs, analysisVars, renderVars, canvasVars, img, layout, hit>>

\* main.rs 133-135, without
NoBackground ==
    /\ pc = "config"
    /\ bg_image' = None
    /\ pc' = "ready"
    /\ UNCHANGED <<inputs, analysisVars, renderVars, canvasVars, img, layout, hit>>

\* one call of draw_spectrum_frame, main.rs 202-212
DrawFrame ==
    /\ pc = "ready"
    /\ img' = draw_spectrum_frame(width, height, spectrum_height, spectrum_y_from_bottom,
                                  spectrum_width, bar_heights, bg_image)
    /\ layout' = IF Len(bar_heights) = 0 THEN NoLayout
                 ELSE Layout(width, height, spectrum_height, spectrum_y_from_bottom,
                             spectrum_width, bar_heights)
    /\ pc' = "drawn"
    /\ UNCHANGED <<inputs, analysisVars, renderVars, canvasVars, bg_image, hit>>

\* the rasterizer on its own: no analysis runs
AnalysisUnused ==
    /\ samples = <<>>
    /\ sample_rate = 1
    /\ fps = 1
    /\ fft_size = 1
    /\ overlap = DefaultOverlap
    /\ bars = 0
    /\ AnalysisIdle

InitDraw ==
    /\ AnalysisUnused
    /\ pc = "config"
    /\ total_frames = 0
    /\ norm = Unit
    /\ video_frame_index = 0
    /\ spectrum_index = 0
    /\ bar_heights \in SeqsUpTo(HeightValues, MaxDrawBars)
    /\ width \in Widths
    /\ height \in Heights
    /\ spectrum_height \in SpectrumHeights
    /\ spectrum_y_from_bottom \in YFromBottoms
    /\ spectrum_width \in SpectrumWidths
    /\ DrawIdle

NextDraw == LoadBackground \/ NoBackground \/ DrawFrame

SpecDraw == InitDraw /\ [][NextDraw]_vars

\* ------------------------------------------- point_in_rounded_rect alone
MaxRectSide == 6

RectOrigins == {0, MaxRectSide}
RectSides == 0..MaxRectSide
\* far enough to lie r + 1 beyond the right and the bottom edge
PointCoords == 0..(2 * MaxRectSide + MaxRectSide \div 2 + 1)

\* the rectangles and radii draw_rounded_rect passes on (line 82)
RectArgs ==
    {a \in [px : PointCoords, py : PointCoords, x0 : RectOrigins, y0 : RectOrigins,
            w : RectSides, h : RectSides, r : 0..(MaxRectSide \div 2), result : {"pending"}] :
        /\ a.x0 = a.y0
        /\ a.r <= Min(a.w \div 2, a.h \div 2)}

\* one call, as in the tests of draw.rs
TestPoint ==
    /\ pc = "rect"
    /\ hit.result = "pending"
    /\ hit' = [hit EXCEPT !.result =
                  IF point_in_rounded_rect(hit.px, hit.py, hit.x0, hit.y0, hit.w, hit.h, hit.r)
                  THEN "inside" ELSE "outside"]
    /\ pc' = "tested"
    /\ UNCHANGED <<inputs, analysisVars, renderVars, canvasVars, bg_image, img, layout>>

InitRect ==
    /\ AnalysisUnused
    /\ pc = "rect"
    /\ RenderIdle
    /\ CanvasUnused
    /\ bg_image = None
    /\ img = NoImage
    /\ layout = NoLayout
    /\ hit \in RectArgs

NextRect == TestPoint

SpecRect == InitRect /\ [][NextRect]_vars

\* --------------------------------------------------------------- main.rs
MaxFps == 2
SampleRates == {1, 2}

\* line 159: (duration_sec * fps).ceil().max(1.0), duration_sec = len / sample_rate
TotalFrames(len, sr, f) == Max(1, (len * f + sr - 1) \div sr)

\* the global maximum used as it is
NormUnguarded(gm) == gm

\* line 179
Norm(gm) == IF gm > 0 THEN gm ELSE Unit

\* the index taken from the end of the video frame instead of its start
SpectrumIndexOneBased(fi, n, total) ==
    IF n = 0 THEN 0 ELSE Min(((fi + 1) * n) \div Max(total, 1), n - 1)

\* lines 191-195
SpectrumIndex(fi, n, total) ==
    IF n = 0 THEN 0 ELSE Min((fi * n) \div Max(total, 1), n - 1)

\* line 200: (v / norm).min(1.0).  v / 0.0 is NaN (v = 0) or +inf (v > 0),
\* and .min(1.0) of either is 1.0
DivMinOne(v, nrm) == IF nrm = 0 THEN Unit ELSE Min((v * Unit) \div nrm, Unit)

\* lines 196-201: frame_spectrums.get(spectrum_index).unwrap_or(&default_heights)
SelectedSpectrum(fs, ix, nbars) == IF ix < Len(fs) THEN fs[ix + 1] ELSE Zeros(nbars)

NormalizedHeights(v, nrm) == [i \in 1..Len(v) |-> DivMinOne(v[i], nrm)]

\* lines 157-189, after compute_all_spectrums returned
PrepareRender ==
    /\ pc = "returned"
    /\ total_frames' = TotalFrames(Len(samples), sample_rate, fps)
    /\ norm' = Norm(global_max)
    /\ video_frame_index' = 0
    /\ pc' = "render"
    /\ UNCHANGED <<inputs, analysisVars, spectrum_index, bar_heights, canvasVars, drawVars>>

\* one iteration of the loop of lines 190-216
RenderFrame ==
    /\ pc = "render"
    /\ video_frame_index < total_frames
    /\ LET ix == SpectrumIndex(video_frame_index, Len(frame_spectrums), total_frames)
           hs == NormalizedHeights(SelectedSpectrum(frame_spectrums, ix, bars), norm)
       IN  /\ spectrum_index' = ix
           /\ bar_heights' = hs
           /\ img' = draw_spectrum_frame(width, height, spectrum_height,
                                         spectrum_y_from_bottom, spectrum_width, hs, bg_image)
           /\ layout' = IF Len(hs) = 0 THEN NoLayout
                        ELSE Layout(width, height, spectrum_height, spectrum_y_from_bottom,
                                    spectrum_width, hs)
    /\ video_frame_index' = video_frame_index + 1
    /\ UNCHANGED <<inputs, pc, analysisVars, total_frames, norm, canvasVars, bg_image, hit>>

\* line 217
FinishRender ==
    /\ pc = "render"
    /\ video_frame_index >= total_frames
    /\ pc' = "rendered"
    /\ UNCHANGED <<inputs, analysisVars, renderVars, canvasVars, drawVars>>

\* main from line 148 on, with Config::default()'s overlap and no --bg-image
InitMain ==
    /\ samples \in SeqsUpTo(SampleValues, MaxLen)
    /\ sample_rate \in SampleRates
    /\ fps \in 1..MaxFps
    /\ fft_size \in FftSizes
    /\ overlap = DefaultOverlap
    /\ bars \in 0..MaxBars
    /\ pc = "start"
    /\ AnalysisIdle
    /\ RenderIdle
    /\ width = MaxWidth
    /\ height = MaxHeight
    /\ spectrum_height = MaxSpectrumHeight
    /\ spectrum_y_from_bottom = 0
    /\ spectrum_width = None
    /\ DrawIdle

NextMain == EnterAll \/ AnalyseFrame \/ ReturnAll \/ PrepareRender \/ RenderFrame \/ FinishRender

SpecMain == InitMain /\ [][NextMain]_vars

\* ------------------------------------------------- claims, frame sequencer
\* every entry of every vector of a sequence of bar vectors
Entries(fs) == {fs[k][i] : <<k, i>> \in {p \in (1..Len(fs)) \X (1..bars) : p[2] <= Len(fs[p[1]])}}
SetMax(S) == CHOOSE m \in S : \A x \in S : x <= m

\* the frames pushed so far are those of indices 0, 1, 2, ... in this order
InFrameOrder ==
    \A k \in 1..Len(frame_spectrums) :
        frame_spectrums[k] = compute_spectrum_frame(samples, k - 1, fft_size, overlap, bars)

\* C1: for len >= fft_size, compute_all_spectrums returns exactly
\* floor((len - fft_size + hop) / hop) bar vectors, the ones of the frame
\* indices 0, 1, 2, ... in this order.
C1_FrameCount ==
    /\ pc \in {"loop", "returned"} =>
          /\ Len(frame_spectrums) = frame_index
          /\ InFrameOrder
    /\ (pc = "returned" /\ Len(samples) >= fft_size) =>
          Len(frame_spectrums) = (Len(samples) - fft_size + hop) \div hop

C1_Witness ==
    /\ pc = "returned"
    /\ Len(samples) >= fft_size
    /\ Len(frame_spectrums) >= 3
    /\ frame_spectrums[1] # frame_spectrums[2]
    /\ hop >= 2

\* C2 as stated: every emitted frame has a full window at its offset, the
\* count is max(0, len - fft_size + hop) / hop, and a signal shorter than
\* fft_size yields no frame.
C2_FullWindowOnly ==
    pc \in {"loop", "returned"} =>
        /\ \A i \in 0..(Len(frame_spectrums) - 1) : i * hop + fft_size <= Len(samples)
        /\ pc = "returned" =>
              Len(frame_spectrums) = Max(0, Len(samples) - fft_size + hop) \div hop

\* C2 amended: the count is (max(0, len - fft_size) + hop) / hop.  For
\* len >= fft_size every emitted frame has a full window at its offset (as
\* the sequencer and as compute_spectrum_frame place it); for len < fft_size
\* exactly one frame, index 0, is emitted and it is all zeros.
C2_FullWindowOrZeroFrame ==
    pc \in {"loop", "returned"} =>
        /\ Len(samples) >= fft_size =>
              /\ \A i \in 0..(Len(frame_spectrums) - 1) : i * hop + fft_size <= Len(samples)
              /\ call.frame_index >= 0 => call.start + fft_size <= Len(samples)
        /\ pc = "returned" =>
              /\ Len(frame_spectrums) = (Max(0, Len(samples) - fft_size) + hop) \div hop
              /\ Len(samples) < fft_size => frame_spectrums = <<Zeros(bars)>>

C2_Witness ==
    /\ pc = "returned"
    /\ Len(samples) < fft_size
    /\ Len(samples) > 0
    /\ bars > 0
    /\ frame_spectrums = <<Zeros(bars)>>

\* fft_size * (1 - overlap) lies in [h, h + 1)
IsFloorOfProduct(h) ==
    /\ h * overlap[2] <= fft_size * (overlap[2] - overlap[1])
    /\ fft_size * (overlap[2] - overlap[1]) < (h + 1) * overlap[2]

\* fft_size * (1 - overlap) lies in [h - 1/2, h + 1/2)
IsRoundOfProduct(h) ==
    /\ (2 * h - 1) * overlap[2] <= 2 * fft_size * (overlap[2] - overlap[1])
    /\ 2 * fft_size * (overlap[2] - overlap[1]) < (2 * h + 1) * overlap[2]

\* C3 as stated: both hops are max(1, round(fft_size * (1 - overlap))).
C3_HopRounded ==
    /\ pc \in {"loop", "returned"} => (hop = 1 \/ IsRoundOfProduct(hop))
    /\ call.frame_index >= 0 => (call.hop = 1 \/ IsRoundOfProduct(call.hop))

\* C3 amended: both hops are max(1, floor(fft_size * (1 - overlap))): the
\* product is truncated; the two functions use the same hop, which is >= 1.
C3_HopTruncated ==
    /\ pc \in {"loop", "returned"} =>
          /\ hop >= 1
          /\ IsFloorOfProduct(hop) \/ (hop = 1 /\ fft_size * (overlap[2] - overlap[1]) < overlap[2])
          /\ call.frame_index >= 0 => call.hop = hop
    /\ call.frame_index >= 0 =>
          /\ call.hop >= 1
          /\ IsFloorOfProduct(call.hop)
                \/ (call.hop = 1 /\ fft_size * (overlap[2] - overlap[1]) < overlap[2])

C3_Witness ==
    /\ pc = "loop"
    /\ call.frame_index >= 1
    /\ hop = call.hop
    /\ hop >= 2
    /\ ~IsRoundOfProduct(hop)

\* C4: compute_spectrum_frame returns exactly `bars` entries, all 0 when
\* frame_index * hop + fft_size > len(samples); so every vector returned by
\* compute_all_spectrums has `bars` entries.
C4_BarsLength ==
    /\ call.frame_index >= 0 =>
          /\ Len(call.out) = bars
          /\ call.frame_index * call.hop + fft_size > Len(samples) =>
                \A i \in 1..bars : call.out[i] = 0
    /\ \A k \in 1..Len(frame_spectrums) : Len(frame_spectrums[k]) = bars

C4_WitnessZeroFilled ==
    /\ pc = "called"
    /\ bars = MaxBars
    /\ call.frame_index >= 1
    /\ Len(samples) >= fft_size
    /\ call.start < Len(samples)
    /\ call.start + fft_size > Len(samples)
    /\ call.out = Zeros(bars)

\* C5: the running global_max is the maximum of 0 and every entry pushed so
\* far, is >= 0, and never decreases.
C5_GlobalMaxIsRunningMax ==
    /\ [](/\ global_max = SetMax({0} \cup Entries(frame_spectrums))
          /\ global_max >= 0)
    /\ [][global_max' >= global_max]_vars

C5_Witness ==
    /\ pc = "returned"
    /\ Len(frame_spectrums) >= 3
    /\ global_max > 0
    /\ global_max = SetMax(Entries(<<frame_spectrums[1]>>))
    /\ SetMax({0} \cup Entries(<<frame_spectrums[Len(frame_spectrums)]>>)) < global_max


\* C6: folding the frames in any order gives the global maximum the
\* sequential loop returns, and the vector of frame i is the one computed
\* from the samples and i alone, whatever was processed before.
C6_OrderIndependent ==
    /\ pc \in {"loop", "returned"} =>
          \A i \in processed :
              frame_spectrums[i] = compute_spectrum_frame(samples, i, fft_size, overlap, bars)
    /\ pc = "returned" =>
          /\ processed = 0..(num_frames - 1)
          /\ global_max = LoopGlobalMax(0, 0)

C6_Witness ==
    /\ pc = "returned"
    /\ num_frames >= 3
    /\ call.frame_index = 0
    /\ global_max > 0
    /\ FoldMax(call.out, 1, 0) < global_max
    /\ FoldMax(frame_spectrums[num_frames - 1], 1, 0) < global_max


\* --------------------------------------------- claims, caller and rasterizer
\* C7: the heights passed to the rasterizer are the selected bar vector's
\* entries divided by the global maximum, or by 1.0 when it is zero, and lie
\* in [0, 1]; the divisor is never zero.
C7_NormalizedHeights ==
    (pc \in {"render", "rendered"} /\ video_frame_index >= 1) =>
        LET divisor == IF global_max = 0 THEN Unit ELSE global_max
            selected == IF spectrum_index < Len(frame_spectrums)
                        THEN frame_spectrums[spectrum_index + 1]
                        ELSE Zeros(bars)
        IN  /\ norm = divisor
            /\ norm # 0
            /\ Len(bar_heights) = Len(selected)
            /\ \A i \in 1..Len(bar_heights) :
                  /\ bar_heights[i] = (selected[i] * Unit) \div divisor
                  /\ bar_heights[i] >= 0
                  /\ bar_heights[i] <= Unit

C7_WitnessSilence ==
    /\ pc = "rendered"
    /\ video_frame_index >= 2
    /\ fft_size >= 2
    /\ Len(samples) >= fft_size
    /\ bars = MaxBars
    /\ global_max = 0
    /\ norm = Unit
    /\ bar_heights = Zeros(bars)

\* C8: the canvas draw_spectrum_frame returns is width x height, with a
\* solid background and with a background image, whatever the bars.
C8_CanvasDimensions ==
    pc = "drawn" => (img.width = width /\ img.height = height)

C8_Witness ==
    /\ pc = "drawn"
    /\ bg_image # None
    /\ img.drawn # {}
    /\ img.width = width
    /\ img.height = height
    /\ width < MaxWidth

\* C9: with no bar heights, or with every bar's pixel height
\* trunc(clamp(v, 0, 1) * (spectrum_height - 4)) equal to 0, no pixel is
\* written: the canvas is the background.
C9_NoBarNoPixel ==
    (/\ pc = "drawn"
     /\ \A i \in 1..Len(bar_heights) :
           clamp(bar_heights[i], 0, Unit) * Max(spectrum_height - Margin, 0) < Unit)
        => img.drawn = {}

C9_WitnessAllZero ==
    /\ pc = "drawn"
    /\ Len(bar_heights) >= 2
    /\ \A i \in 1..Len(bar_heights) : bar_heights[i] = 0
    /\ spectrum_height > Margin
    /\ layout.bar_width >= 1
    /\ img.drawn = {}

\* C10: bar_width is (band_width - total_gaps) / bar_count, with band_width
\* the smaller of the requested band width (else the canvas width) and the
\* canvas width and total_gaps = bar_count - 1, and 0 when the gaps reach
\* the band; with bar_width 0 the call completes and draws no pixel.
C10_ZeroBarWidth ==
    /\ pc = "ready" => ENABLED DrawFrame
    /\ (pc = "drawn" /\ Len(bar_heights) > 0) =>
          LET bar_count == Len(bar_heights)
              band_width == IF spectrum_width = None THEN width
                            ELSE Min(spectrum_width[1], width)
              total_gaps == bar_count - 1
          IN  /\ layout.bar_width =
                    IF total_gaps >= band_width THEN 0
                    ELSE (band_width - total_gaps) \div bar_count
              /\ layout.bar_width = 0 => img.drawn = {}

C10_Witness ==
    /\ pc = "drawn"
    /\ Len(bar_heights) > width
    /\ layout.bar_width = 0
    /\ \A i \in 1..Len(bar_heights) : bar_heights[i] = Unit
    /\ spectrum_height = MaxSpectrumHeight
    /\ img.drawn = {}


\* the bins from 1 on that the mapping sends to bar b (from 0)
BinsOfBar(b) ==
    {k \in 1..(Len(call.magnitudes) - 1) : BarIndex(fft_size, k, bars) = b}

\* C13: with bars >= 1 and magnitudes not empty, each bar of the result of
\* aggregate_bins_to_bars_log is the largest magnitude among the bins >= 1
\* mapped to it, and 0 when no bin is mapped to it; bin 0 contributes to no
\* bar and every bin's bar index lies in 0..bars-1.
C13_BarIsMaxOfItsBins ==
    (pc = "called" /\ bars >= 1 /\ Len(call.magnitudes) > 0) =>
        /\ Len(call.raw) = bars
        /\ \A k \in 1..(Len(call.magnitudes) - 1) : BarIndex(fft_size, k, bars) \in 0..(bars - 1)
        /\ \A b \in 0..(bars - 1) :
              call.raw[b + 1] = SetMax({0} \cup {call.magnitudes[k + 1] : k \in BinsOfBar(b)})

C13_Witness ==
    /\ pc = "called"
    /\ bars = 1
    /\ Cardinality(BinsOfBar(0)) = 2
    /\ call.magnitudes[2] > call.magnitudes[3]
    /\ call.magnitudes[3] > 0
    /\ call.magnitudes[1] > call.magnitudes[2]
    /\ call.raw = <<call.magnitudes[2]>>

\* the video frame rendered last
LastRendered == video_frame_index - 1

\* C16: for every video frame f of 0..total_frames and N >= 1 analysis
\* frames the selected index min(f * N / total_frames, N - 1) is a valid
\* index of the frame spectrums, video frame 0 selects analysis frame 0 and
\* the index never decreases with f; with N = 0 every video frame is drawn
\* from the all-zero vector of length bars.
C16_SpectrumIndexValid ==
    /\ [](/\ (pc \in {"render", "rendered"} /\ video_frame_index >= 1
                 /\ Len(frame_spectrums) >= 1) =>
                LET N == Len(frame_spectrums)
                IN  /\ total_frames >= 1
                    /\ spectrum_index = Min((LastRendered * N) \div total_frames, N - 1)
                    /\ spectrum_index \in 0..(N - 1)
                    /\ LastRendered = 0 => spectrum_index = 0
                    /\ bar_heights =
                          NormalizedHeights(frame_spectrums[spectrum_index + 1], norm)
          /\ pc \in {"render", "rendered"} =>
                \A f \in 0..(total_frames - 1) :
                    NormalizedHeights(
                        SelectedSpectrum(<<>>, SpectrumIndex(f, 0, total_frames), bars),
                        norm) = Zeros(bars))
    /\ [][spectrum_index' >= spectrum_index]_vars

C16_Witness ==
    /\ pc = "render"
    /\ video_frame_index = total_frames
    /\ Len(frame_spectrums) >= 3
    /\ total_frames > Len(frame_spectrums)
    /\ spectrum_index = Len(frame_spectrums) - 1
    /\ bar_heights # Zeros(bars)

\* the columns the claims give bar i (from 0)
ClaimedColumns(i) ==
    LET x0 == layout.start_x + i * (layout.bar_width + 1)
    IN  {x \in 0..(img.width + MaxDrawBars) : x0 <= x /\ x < x0 + layout.bar_width}

\* the rows painted in the columns of bar i
PaintedRows(i) == {p[2] : p \in {q \in img.drawn : q[1] \in ClaimedColumns(i)}}

\* the bars that are drawn: pixel height above 0
DrawnBars ==
    {i \in 0..(Len(bar_heights) - 1) : BarHeight(bar_heights[i + 1], layout.usable_height) > 0}

\* C12: every drawn bar is centred on the line
\* y_center = height - spectrum_y_from_bottom - spectrum_height / 2: a bar of
\* pixel height b occupies the rows [y_center - b/2, y_center - b/2 + b).
C12_CentredOnSharedLine ==
    (pc = "drawn" /\ layout.bar_width >= 1 /\ DrawnBars # {}) =>
        LET y_center == height - spectrum_y_from_bottom - spectrum_height \div 2
        IN  /\ layout.y_center = y_center
            /\ \A i \in DrawnBars :
                  LET b == BarHeight(bar_heights[i + 1], layout.usable_height)
                      top == y_center - b \div 2
                  IN  PaintedRows(i) = {y \in 0..(img.height - 1) : top <= y /\ y < top + b}

\* C15: with bar_width >= 1, bar i occupies the columns
\* [start_x + i * (bar_width + 1), start_x + i * (bar_width + 1) + bar_width)
\* with start_x = (canvas_width - (bar_count * bar_width + total_gaps)) / 2:
\* the ranges are disjoint and one column apart, every column lies inside
\* the canvas, and the left and right margins differ by at most one pixel.
C15_ColumnsCentred ==
    (pc = "drawn" /\ Len(bar_heights) > 0 /\ layout.bar_width >= 1) =>
        LET n == Len(bar_heights)
            bw == layout.bar_width
            row == n * bw + (n - 1)
            x0(i) == layout.start_x + i * (bw + 1)
            left == layout.start_x
            right == img.width - (x0(n - 1) + bw)
        IN  /\ row <= img.width
            /\ layout.start_x = (img.width - row) \div 2
            /\ {p[1] : p \in img.drawn} = UNION {ClaimedColumns(i) : i \in DrawnBars}
            /\ \A i \in 0..(n - 1) : ClaimedColumns(i) \subseteq 0..(img.width - 1)
            /\ \A i \in 0..(n - 1) : Cardinality(ClaimedColumns(i)) = bw
            /\ \A i \in 0..(n - 2) : x0(i + 1) = x0(i) + bw + 1
            /\ \A i, j \in 0..(n - 1) : i # j => ClaimedColumns(i) \cap ClaimedColumns(j) = {}
            /\ right >= 0
            /\ Abs(left - right) <= 1

C15_Witness ==
    /\ pc = "drawn"
    /\ Len(bar_heights) = 2
    /\ DrawnBars = {0, 1}
    /\ layout.bar_width >= 1
    /\ layout.start_x + 1 = img.width - (layout.start_x + 2 * layout.bar_width + 1)
    /\ {p[1] : p \in img.drawn} = ClaimedColumns(0) \cup ClaimedColumns(1)

\* ------------------------------------------------ claims, the hit test
\* the point lies r + 1 pixels beyond an edge of the rectangle
BeyondAnEdge(a) ==
    \/ a.px = a.x0 - a.r - 1
    \/ a.px = a.x0 + a.w + a.r
    \/ a.py = a.y0 - a.r - 1
    \/ a.py = a.y0 + a.h + a.r

\* the point is r pixels diagonally inside one of the four corners
DiagonallyInsideACorner(a) ==
    /\ a.px \in {a.x0 + a.r, a.x0 + a.w - 1 - a.r}
    /\ a.py \in {a.y0 + a.r, a.y0 + a.h - 1 - a.r}

InBounds(a) ==
    /\ a.x0 <= a.px
    /\ a.px < a.x0 + a.w
    /\ a.y0 <= a.py
    /\ a.py < a.y0 + a.h

\* C11: for 1 <= r <= min(w/2, h/2) the four points r pixels diagonally
\* inside the corners are inside, and every point r + 1 pixels beyond an edge
\* is outside.
C11_CornersInsideFarOutside ==
    (pc = "tested" /\ hit.r >= 1) =>
        /\ DiagonallyInsideACorner(hit) => hit.result = "inside"
        /\ BeyondAnEdge(hit) => hit.result = "outside"

C11_Witness ==
    /\ pc = "tested"
    /\ hit.r >= 2
    /\ hit.w = 2 * hit.r
    /\ hit.h > 2 * hit.r
    /\ hit.px = hit.x0 + hit.w - 1 - hit.r
    /\ hit.py = hit.y0 + hit.h - 1 - hit.r
    /\ hit.result = "inside"

\* C14: for 0 <= r <= min(w/2, h/2) the hit test is true only for points
\* inside the bounds x0 <= px < x0 + w, y0 <= py < y0 + h.
C14_InsideOnlyWithinBounds ==
    (pc = "tested" /\ hit.result = "inside") => InBounds(hit)

=============================================================================
